---------------------------- MODULE Spec2Model ----------------------------
(***************************************************************************)
(* Model of the OSI Model Reference Tool (src/version1/osi_refrence.py).   *)
(*                                                                         *)
(* The program is a one-shot command-line tool over a fixed table of the   *)
(* seven OSI layers.  Text is modelled as TLA+ strings (sequences of       *)
(* characters); every print call appends one string to out, a leading      *)
(* "\n" of the printed text being part of that string.  The bullet glyph   *)
(* U+2022 of the source is written "*", which occurs nowhere in the table. *)
(* An Optional value is a sequence of length 0 (None) or 1.                *)
(***************************************************************************)
EXTENDS Integers, Sequences, FiniteSets, TLC

VARIABLES status, entry, args, calls, out

vars == <<status, entry, args, calls, out>>

---------------------------------------------------------------------------
(* Bounds of the model *)

\* longest query string tried
MaxQueryLen == 3

\* how far outside 1..7 the layer numbers tried reach
LayerSlack == 1

\* characters the query strings are made of
QueryChars == {"t", "T", "c", "p", "z"}

---------------------------------------------------------------------------
(* Python built-ins used by the program *)

None == <<>>

Some(v) == <<v>>

Min(a, b) == IF a < b THEN a ELSE b

AsciiLower == "abcdefghijklmnopqrstuvwxyz"

AsciiUpper == "ABCDEFGHIJKLMNOPQRSTUVWXYZ"

\* the i-th character of s, as a string of length 1
CharAt(s, i) == SubSeq(s, i, i)

\* the upper-case letter of each lower-case letter
ToUpper ==
    [c \in {CharAt(AsciiLower, i) : i \in 1..Len(AsciiLower)} |->
        CharAt(AsciiUpper, CHOOSE i \in 1..Len(AsciiLower) : CharAt(AsciiLower, i) = c)]

\* str.upper() on one character
UpperChar(c) == IF c \in DOMAIN ToUpper THEN ToUpper[c] ELSE c

\* upper with the case conversion left out
upper_noop(s) == s

RECURSIVE upper(_)
\* str.upper()
upper(s) == IF s = "" THEN "" ELSE UpperChar(CharAt(s, 1)) \o upper(Tail(s))

\* t in s, for strings
Contains(t, s) ==
    \E i \in 1..(Len(s) - Len(t) + 1) : SubSeq(s, i, i + Len(t) - 1) = t

\* v in xs, for lists
InList(v, xs) == \E i \in 1..Len(xs) : xs[i] = v

RECURSIVE Spaces(_)
Spaces(n) == IF n <= 0 THEN "" ELSE " " \o Spaces(n - 1)

\* str.ljust(width)
ljust(s, width) == s \o Spaces(width - Len(s))

RECURSIVE join(_, _)
\* sep.join(xs)
join(sep, xs) ==
    IF Len(xs) = 0 THEN ""
    ELSE IF Len(xs) = 1 THEN xs[1]
    ELSE xs[1] \o sep \o join(sep, Tail(xs))

\* s.split(sep)[0] for a one-character sep: the text before the first sep
SplitFirst(s, sep) ==
    IF Contains(sep, s)
    THEN LET i == CHOOSE k \in 1..Len(s) :
                     /\ CharAt(s, k) = sep
                     /\ \A j \in 1..(k - 1) : CharAt(s, j) # sep
         IN  SubSeq(s, 1, i - 1)
    ELSE s

\* xs[:n]
Take(xs, n) == SubSeq(xs, 1, Min(n, Len(xs)))

---------------------------------------------------------------------------
(* The reference data *)

ProtocolType == {"ROUTING", "TRANSPORT", "ENCRYPTION", "DATA_FORMAT", "APPLICATION"}

get_osi_model ==
    [n \in 1..7 |->
       CASE n = 7 ->
              [number |-> 7, name |-> "Application",
               function |-> "Interface between network and application software",
               protocols |-> <<"HTTP", "SMTP", "FTP", "DNS", "DHCP", "SNMP", "SSH">>,
               protocol_types |-> <<"APPLICATION">>,
               standards |-> <<"RFC 2616 (HTTP)", "RFC 5321 (SMTP)", "RFC 959 (FTP)">>,
               pdu_name |-> "Message",
               key_technologies |-> "Web browsers, email clients, APIs"]
         [] n = 6 ->
              [number |-> 6, name |-> "Presentation",
               function |-> "Data translation, encryption, compression",
               protocols |-> <<"SSL/TLS", "JPEG", "MPEG", "ASCII", "Unicode">>,
               protocol_types |-> <<"ENCRYPTION", "DATA_FORMAT">>,
               standards |-> <<"RFC 8446 (TLS 1.3)", "ISO/IEC 10918 (JPEG)", "X.216">>,
               pdu_name |-> "Payload",
               key_technologies |-> "Encryption algorithms, compression formats"]
         [] n = 5 ->
              [number |-> 5, name |-> "Session",
               function |-> "Manages connections between applications",
               protocols |-> <<"NetBIOS", "RPC", "PPTP", "SIP">>,
               protocol_types |-> <<"APPLICATION">>,
               standards |-> <<"RFC 1001/1002 (NetBIOS)", "RFC 5531 (RPC)", "RFC 2637 (PPTP)">>,
               pdu_name |-> "Session Data",
               key_technologies |-> "Session establishment, maintenance, termination"]
         [] n = 4 ->
              [number |-> 4, name |-> "Transport",
               function |-> "End-to-end message delivery, error correction",
               protocols |-> <<"TCP", "UDP", "SCTP", "DCCP">>,
               protocol_types |-> <<"TRANSPORT">>,
               standards |-> <<"RFC 793 (TCP)", "RFC 768 (UDP)", "ISO/IEC 8073">>,
               pdu_name |-> "Segment (TCP) / Datagram (UDP)",
               key_technologies |-> "Port numbers, flow control, congestion avoidance"]
         [] n = 3 ->
              [number |-> 3, name |-> "Network",
               function |-> "Logical addressing and routing",
               protocols |-> <<"IP", "ICMP", "OSPF", "BGP", "ARP", "IPsec">>,
               protocol_types |-> <<"ROUTING">>,
               standards |-> <<"RFC 791 (IPv4)", "RFC 8200 (IPv6)", "ISO/IEC 8208">>,
               pdu_name |-> "Packet",
               key_technologies |-> "Routers, IP addressing, routing tables"]
         [] n = 2 ->
              [number |-> 2, name |-> "Data Link",
               function |-> "Physical addressing and media access",
               protocols |-> <<"Ethernet", "PPP", "MAC", "VLAN", "LLC">>,
               protocol_types |-> <<"DATA_FORMAT">>,
               standards |-> <<"IEEE 802.3 (Ethernet)", "RFC 1661 (PPP)", "IEEE 802.1Q (VLAN)">>,
               pdu_name |-> "Frame",
               key_technologies |-> "Switches, MAC addresses, error detection"]
         [] n = 1 ->
              [number |-> 1, name |-> "Physical",
               function |-> "Transmits raw bit stream over physical medium",
               protocols |-> <<"100BASE-TX", "1000BASE-T", "DSL", "SONET", "Wi-Fi">>,
               protocol_types |-> <<>>,
               standards |-> <<"IEEE 802.3", "ITU-T G.992.x (DSL)", "IEEE 802.11 (Wi-Fi)">>,
               pdu_name |-> "Bit",
               key_technologies |-> "Cables, connectors, NICs, hubs, repeaters"]]

\* sorted(model.keys())
SortedKeys == [i \in 1..Cardinality(DOMAIN get_osi_model) |->
                 CHOOSE k \in DOMAIN get_osi_model :
                     Cardinality({j \in DOMAIN get_osi_model : j < k}) = i - 1]

---------------------------------------------------------------------------
(* The query and display functions; each returns the strings it prints *)

\* width of the protocol column
LjustWidth == 8

\* number of protocols shown by list_layers
MaxShownProtocols == 3

\* zip(layer.protocols, layer.standards): pairs up to the shorter list
zip(xs, ys) == [i \in 1..Min(Len(xs), Len(ys)) |-> <<xs[i], ys[i]>>]

InvalidLayerLine(layer_num) ==
    "Invalid layer number: " \o ToString(layer_num) \o ". Must be 1-7."

\* LayerLines with the PDU line left out
LayerLines_nopdu(layer, detailed) ==
    LET pairs == zip(layer.protocols, layer.standards)
    IN  << "\n=== Layer " \o ToString(layer.number) \o ": " \o layer.name \o " ===",
           "\nPrimary Function: " \o layer.function,
           "\nKey Protocols:" >>
        \o [i \in 1..Len(pairs) |->
               "  * " \o ljust(pairs[i][1], LjustWidth) \o " (" \o pairs[i][2] \o ")"]
        \o (IF detailed
            THEN << "\nKey Technologies:",
                    "  " \o layer.key_technologies,
                    "\nTechnical Standards:" >>
                 \o [i \in 1..Len(layer.standards) |-> "  * " \o layer.standards[i]]
            ELSE <<>>)

\* the lines display_layer prints for a layer of the table
LayerLines(layer, detailed) ==
    LET pairs == zip(layer.protocols, layer.standards)
    IN  << "\n=== Layer " \o ToString(layer.number) \o ": " \o layer.name \o " ===",
           "\nPrimary Function: " \o layer.function,
           "\nProtocol Data Unit (PDU): " \o layer.pdu_name,
           "\nKey Protocols:" >>
        \o [i \in 1..Len(pairs) |->
               "  * " \o ljust(pairs[i][1], LjustWidth) \o " (" \o pairs[i][2] \o ")"]
        \o (IF detailed
            THEN << "\nKey Technologies:",
                    "  " \o layer.key_technologies,
                    "\nTechnical Standards:" >>
                 \o [i \in 1..Len(layer.standards) |-> "  * " \o layer.standards[i]]
            ELSE <<>>)

\* display_layer with the return after the invalid-layer message left out:
\* the section headings that follow are printed as well
display_layer_noreturn(layer_num, detailed) ==
    LET model == get_osi_model
    IN  IF layer_num \notin DOMAIN model
        THEN << InvalidLayerLine(layer_num), "\nKey Protocols:" >>
             \o (IF detailed THEN << "\nKey Technologies:", "\nTechnical Standards:" >>
                 ELSE <<>>)
        ELSE LayerLines(model[layer_num], detailed)

display_layer(layer_num, detailed) ==
    LET model == get_osi_model
    IN  IF layer_num \notin DOMAIN model
        THEN << InvalidLayerLine(layer_num) >>
        ELSE LayerLines(model[layer_num], detailed)

\* ListEntry showing two protocols instead of three
ListEntry_two(layer) ==
    << "\nLayer " \o ToString(layer.number) \o ": " \o layer.name,
       "  Function: " \o SplitFirst(layer.function, ".") \o "...",
       "  Key Protocols: " \o join(", ", Take(layer.protocols, 2)) \o "..." >>

\* the three lines list_layers prints for a retained layer
ListEntry(layer) ==
    << "\nLayer " \o ToString(layer.number) \o ": " \o layer.name,
       "  Function: " \o SplitFirst(layer.function, ".") \o "...",
       "  Key Protocols: " \o join(", ", Take(layer.protocols, MaxShownProtocols)) \o "..." >>

RECURSIVE ListFrom(_, _, _)
\* the loop of list_layers over keys[i..]
ListFrom(keys, i, filter_type) ==
    IF i > Len(keys) THEN <<>>
    ELSE LET layer == get_osi_model[keys[i]]
             skip  == filter_type # None /\ ~InList(filter_type[1], layer.protocol_types)
         IN  (IF skip THEN <<>> ELSE ListEntry(layer))
             \o ListFrom(keys, i + 1, filter_type)

\* list_layers with the filter test left out
list_layers_nofilter(filter_type) ==
    << "\nOSI Model Layers:", "----------------" >>
    \o ListFrom(SortedKeys, 1, None)

list_layers(filter_type) ==
    << "\nOSI Model Layers:", "----------------" >>
    \o ListFrom(SortedKeys, 1, filter_type)

\* [p for p in layer.protocols if protocol.upper() in p.upper()]
Matches(layer, protocol) ==
    SelectSeq(layer.protocols, LAMBDA p : Contains(upper(protocol), upper(p)))

\* the lines search_protocol prints for a layer with matches
SearchEntry(layer, matches) ==
    << "\nLayer " \o ToString(layer.number) \o ": " \o layer.name,
       "  Protocols: " \o join(", ", matches),
       "  Standards: " \o layer.standards[1] >>

RECURSIVE SearchFrom(_, _, _)
\* the loop of search_protocol over keys[i..]
SearchFrom(keys, i, protocol) ==
    IF i > Len(keys) THEN <<>>
    ELSE LET layer   == get_osi_model[keys[i]]
             matches == Matches(layer, protocol)
         IN  (IF Len(matches) > 0 THEN SearchEntry(layer, matches) ELSE <<>>)
             \o SearchFrom(keys, i + 1, protocol)

\* found never set in the loop
Found_unset(protocol) == FALSE

\* the value of found after the loop
Found(protocol) ==
    \E i \in 1..Len(SortedKeys) :
        Len(Matches(get_osi_model[SortedKeys[i]], protocol)) > 0

NotFoundLine(protocol) == "No protocols found matching '" \o protocol \o "'"

search_protocol(protocol) ==
    << "\nSearch Results for '" \o upper(protocol) \o "':",
       "--------------------------------" >>
    \o SearchFrom(SortedKeys, 1, protocol)
    \o (IF ~Found(protocol) THEN << NotFoundLine(protocol) >> ELSE <<>>)

\* description of the parser; the usage and option lines argparse adds are
\* library text and are not modelled
HelpText == "OSI Model Reference Tool"

print_help == << HelpText >>

---------------------------------------------------------------------------
(* Command-line dispatch *)

RECURSIVE StringsOfLen(_)
StringsOfLen(n) ==
    IF n = 0 THEN {""}
    ELSE {c \o s : c \in QueryChars, s \in StringsOfLen(n - 1)}

Queries == UNION {StringsOfLen(n) : n \in 0..MaxQueryLen}

LayerNums == (1 - LayerSlack)..(7 + LayerSlack)

Optional(S) == {None} \cup {Some(v) : v \in S}

\* the command lines tried: each option absent or present with a value
Argv == [layer : Optional(LayerNums), detailed : BOOLEAN,
         list : BOOLEAN, search : Optional(Queries)]

NoArgs == [layer |-> None, detailed |-> FALSE, list |-> FALSE, search |-> None]

\* choices=range(1, 8) of the --layer option
LayerChoices == 1..7

\* truth value of args.layer and of args.search
Truthy(opt, falsy) == opt # None /\ opt[1] # falsy

Call(fn, params) == [fn |-> fn, params |-> params]

\* the if/elif chain of main: the call it makes
MainCall(a) ==
    IF Truthy(a.layer, 0) THEN Call("display_layer", <<a.layer[1], a.detailed>>)
    ELSE IF Truthy(a.search, "") THEN Call("search_protocol", <<a.search[1]>>)
    ELSE IF a.list THEN Call("list_layers", <<None>>)
    ELSE Call("print_help", <<>>)

\* what a call prints
Output(c) ==
    CASE c.fn = "display_layer"   -> display_layer(c.params[1], c.params[2])
      [] c.fn = "search_protocol" -> search_protocol(c.params[1])
      [] c.fn = "list_layers"     -> list_layers(c.params[1])
      [] c.fn = "print_help"      -> print_help

Init ==
    /\ status = "start"
    /\ entry = "none"
    /\ args = NoArgs
    /\ calls = <<>>
    /\ out = <<>>

\* main, line 200: parse_args either rejects the command line and exits,
\* or yields the argument namespace
ParseArgs(argv) ==
    /\ entry' = "main"
    /\ args' = argv
    /\ status' = IF argv.layer # None /\ argv.layer[1] \notin LayerChoices
                 THEN "rejected" ELSE "parsed"
    /\ UNCHANGED <<calls, out>>

\* main, lines 202-209: the if/elif chain selects the function to call
Dispatch ==
    /\ status = "parsed"
    /\ status' = "called"
    /\ calls' = Append(calls, MainCall(args))
    /\ UNCHANGED <<entry, args, out>>

\* a direct call of one of the functions, made by a fresh process
Invoke(c) ==
    /\ entry' = "call"
    /\ args' = NoArgs
    /\ status' = "called"
    /\ calls' = << c >>
    /\ UNCHANGED out

DisplayLayer ==
    /\ status = "start"
    /\ \E n \in LayerNums, d \in BOOLEAN : Invoke(Call("display_layer", <<n, d>>))

ListLayers ==
    /\ status = "start"
    /\ \E f \in Optional(ProtocolType) : Invoke(Call("list_layers", <<f>>))

SearchProtocol ==
    /\ status = "start"
    /\ \E q \in Queries : Invoke(Call("search_protocol", <<q>>))

Parse ==
    /\ status = "start"
    /\ \E argv \in Argv : ParseArgs(argv)

\* the called function runs to its end and the process exits
Run ==
    /\ status = "called"
    /\ status' = "done"
    /\ out' = out \o Output(calls[Len(calls)])
    /\ UNCHANGED <<entry, args, calls>>

Next == Parse \/ Dispatch \/ DisplayLayer \/ ListLayers \/ SearchProtocol \/ Run

Spec == Init /\ [][Next]_vars

---------------------------------------------------------------------------
(* Vocabulary of the properties *)

StartsWith(s, prefix) ==
    Len(s) >= Len(prefix) /\ SubSeq(s, 1, Len(prefix)) = prefix

\* number of positions of s at which t occurs
Count(t, s) ==
    Cardinality({i \in 1..(Len(s) - Len(t) + 1) : SubSeq(s, i, i + Len(t) - 1) = t})

RECURSIVE CountIn(_, _)
\* number of occurrences of t in the printed lines
CountIn(t, lines) ==
    IF Len(lines) = 0 THEN 0 ELSE Count(t, lines[1]) + CountIn(t, Tail(lines))

\* the run has finished and the function it called was fn
Ran(fn) == status = "done" /\ Len(calls) >= 1 /\ calls[Len(calls)].fn = fn

Param(i) == calls[Len(calls)].params[i]

\* the lower-case letter of each upper-case letter
ToLower ==
    [c \in {CharAt(AsciiUpper, i) : i \in 1..Len(AsciiUpper)} |->
        CharAt(AsciiLower, CHOOSE i \in 1..Len(AsciiUpper) : CharAt(AsciiUpper, i) = c)]

LowerChar(c) == IF c \in DOMAIN ToLower THEN ToLower[c] ELSE c

\* q and r are the same text up to letter case
DifferOnlyInCase(q, r) ==
    /\ Len(q) = Len(r)
    /\ \A j \in 1..Len(q) : LowerChar(CharAt(q, j)) = LowerChar(CharAt(r, j))

\* q occurs in p, letter case ignored
FoldMatch(q, p) ==
    \E i \in 0..(Len(p) - Len(q)) :
        \A j \in 1..Len(q) : LowerChar(CharAt(q, j)) = LowerChar(CharAt(p, i + j))

LayerMatches(k, q) ==
    \E i \in 1..Len(get_osi_model[k].protocols) : FoldMatch(q, get_osi_model[k].protocols[i])

AnyMatch(q) == \E k \in 1..7 : LayerMatches(k, q)

\* the layer headers of a listing or of a search result, in printed order
LayerHeaders(lines) == SelectSeq(lines, LAMBDA l : StartsWith(l, "\nLayer "))

HeaderOf(k) == "\nLayer " \o ToString(k) \o ": " \o get_osi_model[k].name

RECURSIVE HeadersOf(_, _)
\* the headers of the layers of S from k upwards, ascending
HeadersOf(S, k) ==
    IF k > 7 THEN <<>>
    ELSE (IF k \in S THEN << HeaderOf(k) >> ELSE <<>>) \o HeadersOf(S, k + 1)

SectionMarkers == {"=== Layer", "Primary Function", "Protocol Data Unit",
                   "Key Protocols", "Key Technologies", "Technical Standards"}

---------------------------------------------------------------------------
(* C1 *)

\* C1: a run of main performs exactly one of display_layer, search_protocol,
\* list_layers, print_help, and print_help exactly when none of -l, --list,
\* -s was supplied.
C1_OneActionHelpIffNoOption ==
    (entry = "main" /\ status = "done") =>
        /\ Len(calls) = 1
        /\ calls[1].fn \in {"display_layer", "search_protocol", "list_layers", "print_help"}
        /\ (calls[1].fn = "print_help")
             <=> (args.layer = None /\ ~args.list /\ args.search = None)

---------------------------------------------------------------------------
(* C2 *)

\* C2: for a layer number outside 1..7 display_layer prints the
\* invalid-layer message and nothing else: no header, function, PDU,
\* protocol, key-technology or standards line.
C2_InvalidLayerOnlyMessage ==
    (Ran("display_layer") /\ Param(1) \notin 1..7) =>
        /\ Len(out) = 1
        /\ StartsWith(out[1], "Invalid layer number: " \o ToString(Param(1)))
        /\ \A i \in 1..Len(out) :
              /\ \A m \in SectionMarkers : ~Contains(m, out[i])
              /\ ~StartsWith(out[i], "  ")

C2_Witness ==
    /\ Ran("display_layer")
    /\ Param(1) = 8
    /\ Param(2) = TRUE
    /\ out = << "Invalid layer number: 8. Must be 1-7." >>

---------------------------------------------------------------------------
(* C3 *)

\* the first standard of the layer that contains the protocol's name
BestStandard(layer, proto) ==
    IF \E i \in 1..Len(layer.standards) : Contains(proto, layer.standards[i])
    THEN layer.standards[CHOOSE i \in 1..Len(layer.standards) :
             /\ Contains(proto, layer.standards[i])
             /\ \A j \in 1..(i - 1) : ~Contains(proto, layer.standards[j])]
    ELSE "no specific standard listed"

\* the lines printed under "Key Protocols:"
ProtocolLines(lines) ==
    LET first == CHOOSE i \in 1..Len(lines) : lines[i] = "\nKey Protocols:"
        after == SubSeq(lines, first + 1, Len(lines))
        stop  == IF \E i \in 1..Len(after) : after[i] = "\nKey Technologies:"
                 THEN (CHOOSE i \in 1..Len(after) : after[i] = "\nKey Technologies:") - 1
                 ELSE Len(after)
    IN  SubSeq(after, 1, stop)

\* C3: for a layer 1..7 display_layer prints one line per protocol, in
\* stored order, each with the first standard whose text contains the
\* protocol's name, or "no specific standard listed".
C3_OneLinePerProtocolBestStandard ==
    (Ran("display_layer") /\ Param(1) \in 1..7) =>
        LET layer == get_osi_model[Param(1)]
            pl    == ProtocolLines(out)
        IN  /\ Len(pl) = Len(layer.protocols)
            /\ \A i \in 1..Len(pl) :
                  /\ Contains(layer.protocols[i], pl[i])
                  /\ Contains("(" \o BestStandard(layer, layer.protocols[i]) \o ")", pl[i])

---------------------------------------------------------------------------
(* C4 *)

\* C4: for a layer 1..7 the non-detailed output of display_layer contains
\* the layer's name exactly once and its PDU name exactly once.
C4_NameAndPduOnce ==
    (Ran("display_layer") /\ Param(1) \in 1..7 /\ ~Param(2)) =>
        /\ CountIn(get_osi_model[Param(1)].name, out) = 1
        /\ CountIn(get_osi_model[Param(1)].pdu_name, out) = 1

\* C4, amended: the PDU name occurs exactly once; the layer's name occurs
\* exactly once for layers 1-4, 6 and 7, and twice for layer 5, whose PDU
\* name "Session Data" contains the name "Session".
C4_NameOnceExceptSession ==
    (Ran("display_layer") /\ Param(1) \in 1..7 /\ ~Param(2)) =>
        /\ CountIn(get_osi_model[Param(1)].pdu_name, out) = 1
        /\ CountIn(get_osi_model[Param(1)].name, out) = (IF Param(1) = 5 THEN 2 ELSE 1)
        /\ Count(get_osi_model[Param(1)].name, out[1]) = 1

C4_Witness ==
    /\ Ran("display_layer")
    /\ Param(1) = 5
    /\ ~Param(2)
    /\ CountIn("Session", out) = 2
    /\ CountIn("Session Data", out) = 1

---------------------------------------------------------------------------
(* C5 *)

\* C5: queries that differ only in letter case produce identical output,
\* both when some protocol matches and when none does.
C5_CaseVariantsSameOutput ==
    Ran("search_protocol") =>
        \A r \in Queries :
            DifferOnlyInCase(Param(1), r) => out = search_protocol(r)

\* C5, amended: queries that differ only in letter case produce identical
\* output when some protocol matches; when none matches, the outputs are
\* identical except for the final not-found line, which quotes each query
\* as it was typed.
C5_CaseVariantsSameUpToEcho ==
    Ran("search_protocol") =>
        \A r \in Queries :
            DifferOnlyInCase(Param(1), r) =>
                LET other == search_protocol(r)
                IN  IF AnyMatch(Param(1))
                    THEN out = other
                    ELSE /\ Len(out) = Len(other)
                         /\ SubSeq(out, 1, Len(out) - 1) = SubSeq(other, 1, Len(other) - 1)
                         /\ out[Len(out)] = "No protocols found matching '" \o Param(1) \o "'"
                         /\ other[Len(other)] = "No protocols found matching '" \o r \o "'"

C5_Witness ==
    /\ Ran("search_protocol")
    /\ Param(1) = "tcp"
    /\ out = search_protocol("Tcp")
    /\ CountIn("  Protocols: TCP", out) = 1

---------------------------------------------------------------------------
(* C6 *)

\* C6: search_protocol prints, in ascending layer order and for exactly the
\* layers with a matching protocol, the layer header, the matching protocol
\* names comma-joined in stored order, and every entry of the layer's
\* standards list.
C6_SectionsWithAllStandards ==
    Ran("search_protocol") =>
        /\ LayerHeaders(out) = HeadersOf({k \in 1..7 : LayerMatches(k, Param(1))}, 1)
        /\ \A k \in 1..7 :
              LayerMatches(k, Param(1)) =>
                 LET layer == get_osi_model[k]
                     at    == CHOOSE i \in 1..Len(out) : out[i] = HeaderOf(k)
                     hits  == SelectSeq(layer.protocols, LAMBDA p : FoldMatch(Param(1), p))
                 IN  /\ out[at + 1] = "  Protocols: " \o join(", ", hits)
                     /\ \A j \in 1..Len(layer.standards) :
                           \E i \in (at + 1)..Len(out) : Contains(layer.standards[j], out[i])

---------------------------------------------------------------------------
(* C7 *)

\* C7: search_protocol prints the not-found message exactly once and no
\* per-layer section when no protocol of any layer matches, and does not
\* print it when some protocol matches.
C7_NotFoundIffNoMatch ==
    Ran("search_protocol") =>
        IF AnyMatch(Param(1))
        THEN /\ CountIn("No protocols found", out) = 0
             /\ Len(LayerHeaders(out)) > 0
        ELSE /\ CountIn("No protocols found", out) = 1
             /\ Len(LayerHeaders(out)) = 0
             /\ \A i \in 1..Len(out) :
                   ~Contains("Protocols:", out[i]) /\ ~Contains("Standards:", out[i])

C7_Witness ==
    /\ Ran("search_protocol")
    /\ Param(1) = "zzz"
    /\ Len(out) = 3
    /\ out[3] = "No protocols found matching 'zzz'"

---------------------------------------------------------------------------
(* C8 *)

\* C8: list_layers(f) prints an entry for exactly the layers whose
\* protocol_types contains f, in ascending order; list_layers(TRANSPORT)
\* lists layer 4 only.
C8_FilterKeepsTaggedLayers ==
    (Ran("list_layers") /\ Param(1) # None) =>
        /\ LayerHeaders(out) =
             HeadersOf({k \in 1..7 :
                          \E i \in 1..Len(get_osi_model[k].protocol_types) :
                              get_osi_model[k].protocol_types[i] = Param(1)[1]}, 1)
        /\ Param(1)[1] = "TRANSPORT" => LayerHeaders(out) = << "\nLayer 4: Transport" >>

C8_Witness ==
    /\ Ran("list_layers")
    /\ Param(1) = Some("TRANSPORT")
    /\ LayerHeaders(out) = << "\nLayer 4: Transport" >>

---------------------------------------------------------------------------
(* C9 *)

\* the layers a listing retains, from its headers
Listed(lines) == {k \in 1..7 : \E i \in 1..Len(lines) : lines[i] = HeaderOf(k)}

\* C9: in every entry of list_layers the function summary is the function
\* string itself, without ellipsis, when it has at most 60 characters, and
\* its first 60 characters followed by an ellipsis when it is longer.
C9_FunctionSummaryCutAt60 ==
    Ran("list_layers") =>
        \A k \in Listed(out) :
            LET fn == get_osi_model[k].function
                at == CHOOSE i \in 1..Len(out) : out[i] = HeaderOf(k)
            IN  out[at + 1] = "  Function: " \o
                    (IF Len(fn) <= 60 THEN fn ELSE SubSeq(fn, 1, 60) \o "...")

---------------------------------------------------------------------------
(* C10 *)

\* C10: in every entry of list_layers the protocol line shows the layer's
\* first three protocols in stored order, and ends with an ellipsis exactly
\* when the layer has more than three protocols.
C10_FirstThreeProtocols ==
    Ran("list_layers") =>
        \A k \in Listed(out) :
            LET ps == get_osi_model[k].protocols
                at == CHOOSE i \in 1..Len(out) : out[i] = HeaderOf(k)
            IN  /\ Len(ps) >= 3
                /\ out[at + 2] = "  Key Protocols: " \o ps[1] \o ", " \o ps[2] \o ", " \o ps[3]
                                     \o (IF Len(ps) > 3 THEN "..." ELSE "")

C10_Witness ==
    /\ Ran("list_layers")
    /\ Param(1) = None
    /\ Len(out) = 23
    /\ out[23] = "  Key Protocols: HTTP, SMTP, FTP..."

=============================================================================
